---- MODULE Spec2Model ----
(***************************************************************************)
(* A model of the lossless syntax tree example of src/rowan/src/lib.rs:    *)
(* the tokenizer, the recursive-descent parser that drives rowan's         *)
(* GreenNodeBuilder, the incremental reparser and the red-tree helpers.    *)
(*                                                                         *)
(* Source text is a sequence of characters; a character is a string that   *)
(* names it ("a", "+", "\n", and "U+00A0", "U+00E9" for two characters     *)
(* outside ASCII).  The parser is a state machine with an explicit call    *)
(* stack: one action per parsing procedure, a step running the procedure   *)
(* from its current position to its next call or return.                   *)
(***************************************************************************)
EXTENDS Naturals, Sequences, FiniteSets, TLC

(***************************************************************************)
(* Bounds of the model.                                                    *)
(***************************************************************************)
\* Longest input built from the lexeme alphabet Pieces.
MaxPieces == 2
\* Most binary operators in a generated operand/operator chain.
MaxOperators == 2
\* Most edits recorded in an IncrementalReparser before reparse.
MaxEdits == 1

(***************************************************************************)
(* Characters.                                                             *)
(***************************************************************************)
Letters ==
    {"a", "b", "c", "d", "e", "f", "g", "h", "i", "j", "k", "l", "m", "n",
     "o", "p", "q", "r", "s", "t", "u", "v", "w", "x", "y", "z"}

Digits == {"0", "1", "2", "3", "4", "5", "6", "7", "8", "9"}

\* char::is_whitespace, on the characters of the model.
WhitespaceChars == {" ", "\t", "\n", "\r", "U+00A0"}

\* The characters the first arm of tokenize's match accepts.
AsciiSpaceChars == {" ", "\t", "\n", "\r"}

PunctChars ==
    {"+", "-", "*", "/", "=", "!", "<", ">", "(", ")", "{", "}", ";", ",",
     "\"", "_", "@", "U+00E9"}

Chars == Letters \cup Digits \cup WhitespaceChars \cup PunctChars

\* TextSize::of(ch): the length of ch in UTF-8.
ByteLen(ch) == IF ch \in {"U+00A0", "U+00E9"} THEN 2 ELSE 1

RECURSIVE TextLen(_)
\* The byte length of a text.
TextLen(text) ==
    IF text = <<>> THEN 0 ELSE ByteLen(Head(text)) + TextLen(Tail(text))

RECURSIVE Flat(_)
\* The concatenation of a sequence of texts.
Flat(texts) ==
    IF texts = <<>> THEN <<>> ELSE Head(texts) \o Flat(Tail(texts))

(***************************************************************************)
(* tokenize.                                                               *)
(***************************************************************************)
\* A keyword table that knows `let` and `if` only.
KeywordTextsShort ==
    {<<"l", "e", "t">>, <<"i", "f">>}

KeywordTexts ==
    {<<"l", "e", "t">>, <<"i", "f">>, <<"e", "l", "s", "e">>,
     <<"w", "h", "i", "l", "e">>, <<"f", "o", "r">>, <<"f", "n">>,
     <<"r", "e", "t", "u", "r", "n">>, <<"t", "r", "u", "e">>,
     <<"f", "a", "l", "s", "e">>, <<"s", "t", "r", "u", "c", "t">>,
     <<"e", "n", "u", "m">>, <<"i", "m", "p", "l">>}

RECURSIVE TakeWhile(_, _, _)
\* `while let Some(&next) = chars.peek() { if <next in set> { push; next() }
\* else { break } }`: the index of the first character, from j on, that is
\* not in set (Len(input) + 1 when there is none).
TakeWhile(input, j, set) ==
    IF j <= Len(input) /\ input[j] \in set
    THEN TakeWhile(input, j + 1, set)
    ELSE j

RECURSIVE TakeString(_, _)
\* The loop of the '"' arm: characters are pushed up to and including the
\* next '"', or to the end of the input.
TakeString(input, j) ==
    IF j > Len(input) THEN j
    ELSE IF input[j] = "\"" THEN j + 1
    ELSE TakeString(input, j + 1)

\* A two-character operator whose text keeps only its first character.
LexPairTextShort(ch) == <<ch>>

\* The text of a two-character operator: "==" and "!=".
LexPairText(ch) == <<ch, "=">>

\* One iteration of tokenize's outer loop, entered with chars.next() = input[i]:
\* the token's kind, its text as the arm builds it, and the index of the
\* first character the iteration leaves unread.
Lex(input, i) ==
    LET ch == input[i]
        peek == IF i < Len(input) THEN input[i + 1] ELSE "None"
        run(kind, set) ==
            LET e == TakeWhile(input, i + 1, set)
            IN  [kind |-> kind, text |-> <<ch>> \o SubSeq(input, i + 1, e - 1),
                 next |-> e]
        one(kind) == [kind |-> kind, text |-> <<ch>>, next |-> i + 1]
    IN  IF ch \in AsciiSpaceChars THEN run("Whitespace", WhitespaceChars)
        ELSE IF ch = "/" /\ peek = "/" THEN
            LET e == TakeWhile(input, i + 2, Chars \ {"\n"})
            IN  [kind |-> "Comment",
                 text |-> <<"/", "/">> \o SubSeq(input, i + 2, e - 1),
                 next |-> e]
        ELSE IF ch = "+" THEN one("Plus")
        ELSE IF ch = "-" THEN one("Minus")
        ELSE IF ch = "*" THEN one("Star")
        ELSE IF ch = "/" THEN one("Slash")
        ELSE IF ch = "=" /\ peek = "=" THEN
            [kind |-> "Eq", text |-> LexPairText("="), next |-> i + 2]
        ELSE IF ch = "=" THEN one("Eq")
        ELSE IF ch = "!" /\ peek = "=" THEN
            [kind |-> "Neq", text |-> LexPairText("!"), next |-> i + 2]
        ELSE IF ch = "<" THEN one("Lt")
        ELSE IF ch = ">" THEN one("Gt")
        ELSE IF ch = "(" THEN one("LParen")
        ELSE IF ch = ")" THEN one("RParen")
        ELSE IF ch = "{" THEN one("LBrace")
        ELSE IF ch = "}" THEN one("RBrace")
        ELSE IF ch = ";" THEN one("Semicolon")
        ELSE IF ch = "," THEN one("Comma")
        ELSE IF ch = "\"" THEN
            LET e == TakeString(input, i + 1)
            IN  [kind |-> "String",
                 text |-> <<"\"">> \o SubSeq(input, i + 1, e - 1), next |-> e]
        ELSE IF ch \in Digits THEN run("Number", Digits)
        ELSE IF ch \in Letters \cup {"_"} THEN
            LET e == TakeWhile(input, i + 1, Letters \cup Digits \cup {"_"})
                text == <<ch>> \o SubSeq(input, i + 1, e - 1)
            IN  [kind |-> IF text \in KeywordTexts THEN "Keyword" ELSE "Ident",
                 text |-> text, next |-> e]
        ELSE one("Error")

\* A token that records the offset after its text instead of `start`.
TokenAtOffset(kind, text, start) ==
    [kind |-> kind, text |-> text, offset |-> start + TextLen(text)]

\* Token { kind, text, offset: start }
Token(kind, text, start) == [kind |-> kind, text |-> text, offset |-> start]

RECURSIVE TokenizeFrom(_, _, _, _)
\* tokenize's outer loop: `offset` is advanced by the length of every
\* character the iteration consumes, the token records `start`.
TokenizeFrom(input, i, offset, acc) ==
    IF i > Len(input) THEN acc
    ELSE LET t == Lex(input, i)
         IN  TokenizeFrom(input, t.next,
                 offset + TextLen(SubSeq(input, i, t.next - 1)),
                 Append(acc, Token(t.kind, t.text, offset)))

tokenize(input) == TokenizeFrom(input, 1, 0, <<>>)

(***************************************************************************)
(* The parser machine: the fields of Parser (tokens, cursor, errors, and    *)
(* the builder's parents and children), the call stack of the parsing       *)
(* procedures, and how the run stands.                                      *)
(***************************************************************************)
\* A leaf of the green tree.
GreenToken(kind, text) ==
    [kind |-> kind, text |-> text, children |-> <<>>, is_token |-> TRUE]

\* An interior node of the green tree.
GreenNode(kind, children) ==
    [kind |-> kind, text |-> <<>>, children |-> children, is_token |-> FALSE]

\* The value of green_node while no tree has been returned.
NoGreen == GreenNode("None", <<>>)

\* A call-stack frame: the procedure, where it resumes, and its locals.
\* Two fields record, for the properties, what the code does not keep: the
\* number of open builder frames when the procedure was called (frames) and
\* when its checkpoint was taken (cp_frames).
Frame(fn, min_precedence) ==
    [fn |-> fn, pc |-> "start", min_precedence |-> min_precedence,
     op_precedence |-> 0, checkpoint |-> 0, frames |-> 0, cp_frames |-> 0]

Top(m) == m.stack[Len(m.stack)]

Running(m) == m.status = "running"

Goto(m, pc) ==
    IF ~Running(m) THEN m ELSE [m EXCEPT !.stack[Len(m.stack)].pc = pc]

\* Keep op_precedence and checkpoint across the call that follows.
SetLocals(m, op_precedence, cp) ==
    IF ~Running(m) THEN m
    ELSE [m EXCEPT !.stack[Len(m.stack)].op_precedence = op_precedence,
                   !.stack[Len(m.stack)].checkpoint = cp,
                   !.stack[Len(m.stack)].cp_frames = Len(m.parents)]

\* Call fn; the caller resumes at ret.
Call(m, fn, min_precedence, ret) ==
    IF ~Running(m) THEN m
    ELSE [m EXCEPT !.stack =
            Append([@ EXCEPT ![Len(@)].pc = ret],
                   [Frame(fn, min_precedence) EXCEPT
                       !.frames = Len(m.parents)])]

Return(m) ==
    IF ~Running(m) THEN m
    ELSE [m EXCEPT !.stack = SubSeq(@, 1, Len(@) - 1)]

Panic(m, what) == [m EXCEPT !.status = "panicked", !.panic = what]

(***************************************************************************)
(* rowan::GreenNodeBuilder: `parents` holds the open frames as (kind,       *)
(* index of the first child), `children` the finished elements.             *)
(***************************************************************************)
token(m, kind, text) ==
    IF ~Running(m) THEN m
    ELSE [m EXCEPT !.children = Append(@, GreenToken(kind, text))]

start_node(m, kind) ==
    IF ~Running(m) THEN m
    ELSE [m EXCEPT !.parents =
            Append(@, [kind |-> kind, first_child |-> Len(m.children)])]

finish_node(m) ==
    IF ~Running(m) THEN m
    ELSE IF m.parents = <<>> THEN Panic(m, "finish_node")
    ELSE LET p == m.parents[Len(m.parents)]
             node == GreenNode(p.kind,
                         SubSeq(m.children, p.first_child + 1, Len(m.children)))
         IN  [m EXCEPT !.parents = SubSeq(@, 1, Len(@) - 1),
                       !.children = Append(SubSeq(@, 1, p.first_child), node)]

checkpoint(m) == Len(m.children)

start_node_at(m, cp, kind) ==
    IF ~Running(m) THEN m
    ELSE IF cp > Len(m.children) THEN Panic(m, "start_node_at")
    ELSE IF m.parents # <<>> /\ cp < m.parents[Len(m.parents)].first_child
         THEN Panic(m, "start_node_at")
    ELSE [m EXCEPT !.parents = Append(@, [kind |-> kind, first_child |-> cp])]

\* finish(): the one finished element, which must be a node.
finish(m) ==
    IF ~Running(m) THEN m
    ELSE IF Len(m.children) # 1 THEN Panic(m, "finish")
    ELSE IF m.children[1].is_token THEN Panic(m, "finish")
    ELSE [m EXCEPT !.green_node = m.children[1], !.children = <<>>]

(***************************************************************************)
(* Parser's helpers.                                                        *)
(***************************************************************************)
current_kind(m) ==
    IF m.cursor < Len(m.tokens) THEN m.tokens[m.cursor + 1].kind ELSE "None"

current_text(m) ==
    IF m.cursor < Len(m.tokens) THEN m.tokens[m.cursor + 1].text ELSE <<>>

at(m, kind) == current_kind(m) = kind

at_keyword(m, keyword) == at(m, "Keyword") /\ current_text(m) = keyword

at_end(m) == m.cursor >= Len(m.tokens)

\* An advance without the test of the cursor against tokens.len().
advance_unchecked(m) ==
    IF ~Running(m) THEN m ELSE [m EXCEPT !.cursor = @ + 1]

advance(m) ==
    IF ~Running(m) THEN m
    ELSE IF m.cursor < Len(m.tokens) THEN [m EXCEPT !.cursor = @ + 1]
    ELSE m

\* error(message): an empty range at the offset of the token under the
\* cursor, and at 0 when there is none.  The record also keeps, for the
\* properties, where the cursor was when the error was raised.
error(m, message) ==
    IF ~Running(m) THEN m
    ELSE LET offset == IF m.cursor < Len(m.tokens)
                       THEN m.tokens[m.cursor + 1].offset
                       ELSE 0
         IN  [m EXCEPT !.errors =
                 Append(@, [message |-> message, offset |-> offset,
                            cursor |-> m.cursor])]

\* A consume that skips the token it did not expect.
consume_skipping(m, expected) ==
    IF ~Running(m) THEN m
    ELSE IF at(m, expected)
         THEN advance(token(m, expected, m.tokens[m.cursor + 1].text))
         ELSE advance(error(m, "Expected " \o expected))

consume(m, expected) ==
    IF ~Running(m) THEN m
    ELSE IF at(m, expected)
         THEN advance(token(m, expected, m.tokens[m.cursor + 1].text))
         ELSE error(m, "Expected " \o expected)

TriviaKinds == {"Whitespace", "Comment"}

RECURSIVE trivia(_)
trivia(m) ==
    IF Running(m) /\ current_kind(m) \in TriviaKinds
    THEN trivia(consume(m, current_kind(m)))
    ELSE m

RECURSIVE skip_trivia(_)
skip_trivia(m) ==
    IF Running(m) /\ current_kind(m) \in TriviaKinds
    THEN skip_trivia(advance(m))
    ELSE m

RECURSIVE whitespace_trivia(_)
\* `while self.at(SyntaxKind::Whitespace) { self.trivia(); }`
whitespace_trivia(m) ==
    IF Running(m) /\ at(m, "Whitespace")
    THEN whitespace_trivia(trivia(m))
    ELSE m

\* Option<u8> as a sequence: <<>> is None, <<p>> is Some(p).
current_binary_op_precedence(m) ==
    LET k == current_kind(m)
    IN  IF k \in {"Star", "Slash"} THEN <<5>>
        ELSE IF k \in {"Plus", "Minus"} THEN <<4>>
        ELSE IF k \in {"Lt", "Gt"} THEN <<3>>
        ELSE IF k \in {"Eq", "Neq"} THEN <<2>>
        ELSE <<>>

\* The kinds binary_expression consumes as its operator.
BinaryOpKinds == {"Plus", "Minus", "Star", "Slash", "Eq", "Neq", "Lt", "Gt"}

W_let == <<"l", "e", "t">>
W_if == <<"i", "f">>
W_else == <<"e", "l", "s", "e">>
W_while == <<"w", "h", "i", "l", "e">>
W_return == <<"r", "e", "t", "u", "r", "n">>
W_fn == <<"f", "n">>

(***************************************************************************)
(* The parsing procedures.  Each takes the machine with its own frame on    *)
(* top and runs from the frame's pc to the next call, return or loop head.  *)
(***************************************************************************)
\* Parser::parse; its frame is the bottom of the stack.
parse(m) ==
    LET pc == Top(m).pc
    IN  IF pc = "start" THEN Goto(start_node(m, "Root"), "loop")
        ELSE IF ~at_end(m)
        THEN IF at(m, "Whitespace") \/ at(m, "Comment")
             THEN trivia(m)
             ELSE Call(m, "statement", 0, "loop")
        ELSE LET done == finish(finish_node(m))
             IN  IF Running(done)
                 THEN [done EXCEPT !.status = "returned", !.stack = <<>>]
                 ELSE done

statement(m) ==
    LET pc == Top(m).pc
        callee ==
            IF at_keyword(m, W_let) THEN "let_statement"
            ELSE IF at_keyword(m, W_if) THEN "if_statement"
            ELSE IF at_keyword(m, W_while) THEN "while_statement"
            ELSE IF at_keyword(m, W_return) THEN "return_statement"
            ELSE IF at_keyword(m, W_fn) THEN "function_definition"
            ELSE "expression_statement"
    IN  IF pc = "start" THEN Call(m, callee, 0, "end") ELSE Return(m)

\* The tail of let_statement, return_statement and expression_statement.
SemicolonEnd(m) == Return(finish_node(consume(skip_trivia(m), "Semicolon")))

let_statement(m) ==
    LET pc == Top(m).pc
        m1 == skip_trivia(consume(skip_trivia(consume(
                  start_node(m, "LetStmt"), "Keyword")), "Ident"))
    IN  IF pc = "start"
        THEN IF at(m1, "Eq")
             THEN Call(skip_trivia(consume(m1, "Eq")), "expression", 0, "end")
             ELSE SemicolonEnd(m1)
        ELSE SemicolonEnd(m)

if_statement(m) ==
    LET pc == Top(m).pc
        m1 == skip_trivia(consume(m, "Keyword"))
    IN  IF pc = "start"
        THEN Call(skip_trivia(consume(start_node(m, "IfStmt"), "Keyword")),
                  "expression", 0, "condition")
        ELSE IF pc = "condition" THEN Call(skip_trivia(m), "block", 0, "then")
        ELSE IF pc = "then"
        THEN IF at_keyword(m, W_else)
             THEN IF at_keyword(m1, W_if)
                  THEN Call(m1, "if_statement", 0, "end")
                  ELSE Call(m1, "block", 0, "end")
             ELSE Return(finish_node(m))
        ELSE Return(finish_node(m))

while_statement(m) ==
    LET pc == Top(m).pc
    IN  IF pc = "start"
        THEN Call(skip_trivia(consume(start_node(m, "WhileStmt"), "Keyword")),
                  "expression", 0, "condition")
        ELSE IF pc = "condition" THEN Call(skip_trivia(m), "block", 0, "end")
        ELSE Return(finish_node(m))

return_statement(m) ==
    LET pc == Top(m).pc
        m1 == skip_trivia(consume(start_node(m, "ReturnStmt"), "Keyword"))
    IN  IF pc = "start"
        THEN IF ~at(m1, "Semicolon")
             THEN Call(m1, "expression", 0, "end")
             ELSE SemicolonEnd(m1)
        ELSE SemicolonEnd(m)

function_definition(m) ==
    LET pc == Top(m).pc
    IN  IF pc = "start"
        THEN Call(skip_trivia(consume(skip_trivia(consume(
                      start_node(m, "FnDef"), "Keyword")), "Ident")),
                  "parameter_list", 0, "params")
        ELSE IF pc = "params" THEN Call(skip_trivia(m), "block", 0, "end")
        ELSE Return(finish_node(m))

parameter_list(m) ==
    LET pc == Top(m).pc
        end(x) == Return(finish_node(consume(x, "RParen")))
        m1 == skip_trivia(consume(start_node(m, "ParamList"), "LParen"))
        m2 == skip_trivia(consume(m, "Ident"))
    IN  IF pc = "start"
        THEN IF ~at(m1, "RParen") THEN Goto(m1, "loop") ELSE end(m1)
        ELSE IF at(m2, "Comma")
             THEN skip_trivia(consume(m2, "Comma"))
             ELSE end(m2)

block(m) ==
    LET pc == Top(m).pc
    IN  IF pc = "start"
        THEN Goto(consume(start_node(m, "BlockStmt"), "LBrace"), "loop")
        ELSE IF ~at_end(m) /\ ~at(m, "RBrace")
        THEN IF at(m, "Whitespace") \/ at(m, "Comment")
             THEN trivia(m)
             ELSE Call(m, "statement", 0, "loop")
        ELSE Return(finish_node(consume(m, "RBrace")))

expression_statement(m) ==
    LET pc == Top(m).pc
    IN  IF pc = "start"
        THEN Call(start_node(m, "ExprStmt"), "expression", 0, "end")
        ELSE SemicolonEnd(m)

expression(m) ==
    LET pc == Top(m).pc
    IN  IF pc = "start" THEN Call(m, "binary_expression", 0, "end")
        ELSE Return(m)

\* The position at which binary_expression takes its checkpoint.
BinaryCheckpoint(m) == checkpoint(m)

binary_expression(m) ==
    LET f == Top(m)
        p == current_binary_op_precedence(m)
        cp == BinaryCheckpoint(m)
        m1 == IF current_kind(m) \in BinaryOpKinds
              THEN consume(m, current_kind(m))
              ELSE m
        m2 == SetLocals(whitespace_trivia(m1), p[1], cp)
    IN  IF f.pc = "start" THEN Call(m, "unary_expression", 0, "operand")
        ELSE IF f.pc = "operand" THEN Goto(whitespace_trivia(m), "loop")
        ELSE IF f.pc = "loop"
        THEN IF p = <<>> THEN Return(m)
             ELSE IF p[1] < f.min_precedence THEN Return(m)
             ELSE Call(m2, "binary_expression", p[1] + 1, "rhs")
        ELSE Goto(finish_node(start_node_at(m, f.checkpoint, "BinaryExpr")),
                  "loop")

unary_expression(m) ==
    LET pc == Top(m).pc
    IN  IF pc = "start"
        THEN IF at(m, "Minus") \/ at(m, "Plus")
             THEN Call(whitespace_trivia(consume(start_node(m, "UnaryExpr"),
                                                 current_kind(m))),
                       "unary_expression", 0, "end")
             ELSE Call(m, "postfix_expression", 0, "return")
        ELSE IF pc = "end" THEN Return(finish_node(m))
        ELSE Return(m)

postfix_expression(m) ==
    LET f == Top(m)
        m1 == start_node(m, "CallExpr")
    IN  IF f.pc = "start" THEN Call(m, "primary_expression", 0, "loop")
        ELSE IF f.pc = "loop"
        THEN IF at(m, "LParen")
             THEN Call(SetLocals(m1, 0, checkpoint(m1)),
                       "argument_list", 0, "call")
             ELSE Return(m)
        ELSE Goto(finish_node(start_node_at(m, f.checkpoint, "CallExpr")),
                  "loop")

argument_list(m) ==
    LET pc == Top(m).pc
        end(x) == Return(finish_node(consume(x, "RParen")))
        m1 == skip_trivia(consume(start_node(m, "ArgList"), "LParen"))
        m2 == skip_trivia(m)
    IN  IF pc = "start"
        THEN IF ~at(m1, "RParen")
             THEN Call(m1, "expression", 0, "arg")
             ELSE end(m1)
        ELSE IF at(m2, "Comma")
             THEN Call(skip_trivia(consume(m2, "Comma")), "expression", 0, "arg")
             ELSE end(m2)

\* The arm of primary_expression for a token that starts no expression.
UnexpectedToken(m) == advance(error(m, "Expected expression"))

primary_expression(m) ==
    LET pc == Top(m).pc
        literal(kind) ==
            Return(finish_node(consume(start_node(m, "Literal"), kind)))
    IN  IF pc = "start"
        THEN IF at(m, "Number") THEN literal("Number")
             ELSE IF at(m, "String") THEN literal("String")
             ELSE IF at(m, "Ident") THEN Return(consume(m, "Ident"))
             ELSE IF at(m, "LParen")
             THEN Call(whitespace_trivia(consume(start_node(m, "ParenExpr"),
                                                 "LParen")),
                       "expression", 0, "paren")
             ELSE Return(UnexpectedToken(m))
        ELSE Return(finish_node(consume(whitespace_trivia(m), "RParen")))

\* The body of parse_expression, from builder.start_node(Root) to
\* builder.finish(); its frame is the bottom of the stack.
parse_expression(m) ==
    LET pc == Top(m).pc
        m1 == whitespace_trivia(start_node(m, "Root"))
        done == finish(finish_node(whitespace_trivia(m)))
    IN  IF pc = "start"
        THEN IF ~at_end(m1)
             THEN Call(m1, "expression", 0, "end")
             ELSE Goto(m1, "end")
        ELSE IF Running(done)
             THEN [done EXCEPT !.status = "returned", !.stack = <<>>]
             ELSE done

\* One step of the procedure on top of the stack.
Step(m) ==
    LET fn == Top(m).fn
    IN  CASE fn = "parse" -> parse(m)
          [] fn = "parse_expression" -> parse_expression(m)
          [] fn = "statement" -> statement(m)
          [] fn = "let_statement" -> let_statement(m)
          [] fn = "if_statement" -> if_statement(m)
          [] fn = "while_statement" -> while_statement(m)
          [] fn = "return_statement" -> return_statement(m)
          [] fn = "function_definition" -> function_definition(m)
          [] fn = "parameter_list" -> parameter_list(m)
          [] fn = "block" -> block(m)
          [] fn = "expression_statement" -> expression_statement(m)
          [] fn = "expression" -> expression(m)
          [] fn = "binary_expression" -> binary_expression(m)
          [] fn = "unary_expression" -> unary_expression(m)
          [] fn = "postfix_expression" -> postfix_expression(m)
          [] fn = "argument_list" -> argument_list(m)
          [] fn = "primary_expression" -> primary_expression(m)

\* Parser::new(tokens), about to run parse().
Parser_new(toks) ==
    [tokens |-> toks, cursor |-> 0, parents |-> <<>>, children |-> <<>>,
     errors |-> <<>>, stack |-> <<Frame("parse", 0)>>, status |-> "running",
     panic |-> "None", green_node |-> NoGreen]

\* Parser::new(tokens) in parse_expression, about to run its body.
Parser_new_expression(toks) ==
    [Parser_new(toks) EXCEPT !.stack = <<Frame("parse_expression", 0)>>]

RECURSIVE Run(_)
\* The machine run until parse returns or panics.
Run(m) == IF Running(m) THEN Run(Step(m)) ELSE m

\* What a run leaves to its caller: a ParseResult, or the panic.
Outcome(m) ==
    [status |-> m.status, panic |-> m.panic, green_node |-> m.green_node,
     errors |-> IF m.status = "returned" THEN m.errors ELSE <<>>]

(***************************************************************************)
(* The red tree: rowan's SyntaxNode as (green element, absolute offset).    *)
(***************************************************************************)
RECURSIVE GreenText(_)
\* text(): the texts of the leaves under an element, in order.
GreenText(e) ==
    IF e.is_token THEN e.text
    ELSE Flat([i \in 1..Len(e.children) |-> GreenText(e.children[i])])

\* text_len() of a green element.
GreenTextLen(e) == TextLen(GreenText(e))

new_root(green) == [green |-> green, offset |-> 0]

\* A build whose root cursor does not start at offset 0.
build_shifted(green) == [green |-> green, offset |-> 1]

\* SyntaxTreeBuilder::new(green).build()
build(green) == new_root(green)

\* text_range() as <<start, end>>.
text_range(n) == <<n.offset, n.offset + GreenTextLen(n.green)>>

\* The children of a cursor, nodes and tokens: each at the parent's offset
\* plus the text lengths of the siblings before it.
children_with_tokens(n) ==
    [i \in 1..Len(n.green.children) |->
        [green |-> n.green.children[i],
         offset |-> n.offset
                    + TextLen(Flat([j \in 1..(i - 1) |->
                                      GreenText(n.green.children[j])]))]]

RECURSIVE Descendants(_)
\* A cursor and every cursor below it, tokens included.
Descendants(n) ==
    {n} \cup UNION {Descendants(children_with_tokens(n)[i]) :
                        i \in 1..Len(n.green.children)}

\* children(): the child nodes of a cursor, tokens left out.
child_nodes(n) ==
    SelectSeq(children_with_tokens(n), LAMBDA c : ~c.green.is_token)

\* TextRange::contains(offset): start <= offset < end.
contains(range, offset) == range[1] <= offset /\ offset < range[2]

RECURSIVE find_node_at_offset(_, _)
RECURSIVE FindInChildren(_, _, _, _)
\* for child in root.children() { ... }: from the i-th child node on, result
\* is replaced by the deeper node found in a child whose range contains the
\* offset.
FindInChildren(kids, i, offset, result) ==
    IF i > Len(kids) THEN result
    ELSE LET child == kids[i]
             deeper == find_node_at_offset(child, offset)
         IN  FindInChildren(kids, i + 1, offset,
                 IF contains(text_range(child), offset) /\ deeper # <<>>
                 THEN deeper[1] ELSE result)

\* A search that never descends below the node it is given.
find_node_shallow(root, offset) ==
    IF ~contains(text_range(root), offset) THEN <<>> ELSE <<root>>

\* find_node_at_offset(root, offset): <<>> for None, <<node>> for Some(node).
find_node_at_offset(root, offset) ==
    IF ~contains(text_range(root), offset) THEN <<>>
    ELSE <<FindInChildren(child_nodes(root), 1, offset, root)>>

(***************************************************************************)
(* Inputs.                                                                  *)
(***************************************************************************)
\* The lexeme alphabet of the generated inputs.
Pieces ==
    {<<" ">>, <<"U+00A0">>, <<"/">>, <<"-">>, <<"=">>, <<"(">>, <<")">>,
     <<"{">>, <<"}">>, <<";">>, <<",">>, <<"\"">>, <<"1">>, <<"x">>, W_let}

PieceInputs ==
    UNION {{Flat(ps) : ps \in [1..k -> Pieces]} : k \in 0..MaxPieces}

\* The spellings of the binary operators.
OperatorTexts ==
    {<<"+">>, <<"-">>, <<"*">>, <<"/">>, <<"<">>, <<">">>, <<"=", "=">>,
     <<"!", "=">>}

OperandTexts == <<"1", "2", "3", "4", "5", "6", "7", "8", "9">>

\* operand (gap operator gap operand)*, for a sequence of operators.
Chain(ops, gap) ==
    <<OperandTexts[1]>>
    \o Flat([i \in 1..Len(ops) |->
                gap \o ops[i] \o gap \o <<OperandTexts[i + 1]>>])

ChainInputs ==
    UNION {{Chain(ops, gap) : ops \in [1..k -> OperatorTexts],
                              gap \in {<<>>, <<" ">>}} : k \in 1..MaxOperators}

\* "let x = 1 + 2 * 3;"
Text_Let ==
    <<"l", "e", "t", " ", "x", " ", "=", " ", "1", " ", "+", " ", "2", " ",
      "*", " ", "3", ";">>

\* "(1 + 2"
Text_OpenParen ==
    <<"(", "1", " ", "+", " ", "2">>

\* "x y z"
Text_Juxtaposed ==
    <<"x", " ", "y", " ", "z">>

\* "1 +"
Text_MissingOperand ==
    <<"1", " ", "+">>

\* "-f(x)"
Text_NegatedCall ==
    <<"-", "f", "(", "x", ")">>

\* "f(1, 2);"
Text_CallStatement ==
    <<"f", "(", "1", ",", " ", "2", ")", ";">>

\* "1+f()"
Text_CallOperand ==
    <<"1", "+", "f", "(", ")">>

\* "f(x)(y);"
Text_CallCall ==
    <<"f", "(", "x", ")", "(", "y", ")", ";">>

\* "if x { return 1; } else { y; }"
Text_IfElse ==
    <<"i", "f", " ", "x", " ", "{", " ", "r", "e", "t", "u", "r", "n", " ",
      "1", ";", " ", "}", " ", "e", "l", "s", "e", " ", "{", " ", "y", ";",
      " ", "}">>

\* "if x {}else if y {}else {}"
Text_ElseIf ==
    <<"i", "f", " ", "x", " ", "{", "}", "e", "l", "s", "e", " ", "i", "f",
      " ", "y", " ", "{", "}", "e", "l", "s", "e", " ", "{", "}">>

\* "while x { }"
Text_While ==
    <<"w", "h", "i", "l", "e", " ", "x", " ", "{", " ", "}">>

\* "fn f(a, b) { return a; }"
Text_Fn ==
    <<"f", "n", " ", "f", "(", "a", ",", " ", "b", ")", " ", "{", " ", "r",
      "e", "t", "u", "r", "n", " ", "a", ";", " ", "}">>

\* "let x = 42;"
Text_Test ==
    <<"l", "e", "t", " ", "x", " ", "=", " ", "4", "2", ";">>

\* "let x = 100;"
Text_TestEdited ==
    <<"l", "e", "t", " ", "x", " ", "=", " ", "1", "0", "0", ";">>

\* "x + 42 * (y - 3)"
Text_TestExpression ==
    <<"x", " ", "+", " ", "4", "2", " ", "*", " ", "(", "y", " ", "-", " ",
      "3", ")">>

\* "let x == 1;"
Text_LetEqEq ==
    <<"l", "e", "t", " ", "x", " ", "=", "=", " ", "1", ";">>

\* "// c\nx;"
Text_Comment ==
    <<"/", "/", " ", "c", "\n", "x", ";">>

\* "\"ab"
Text_OpenString ==
    <<"\"", "a", "b">>

\* "- 1 + 2"
Text_Unary ==
    <<"-", " ", "1", " ", "+", " ", "2">>

\* "let if else while for fn return true false struct enum impl lets _x x1 1x"
Text_Words ==
    <<"l", "e", "t", " ", "i", "f", " ", "e", "l", "s", "e", " ", "w", "h",
      "i", "l", "e", " ", "f", "o", "r", " ", "f", "n", " ", "r", "e", "t",
      "u", "r", "n", " ", "t", "r", "u", "e", " ", "f", "a", "l", "s", "e",
      " ", "s", "t", "r", "u", "c", "t", " ", "e", "n", "u", "m", " ", "i",
      "m", "p", "l", " ", "l", "e", "t", "s", " ", "_", "x", " ", "x", "1",
      " ", "1", "x">>

\* "\"a b\""
Text_QuotedString ==
    <<"\"", "a", " ", "b", "\"">>

\* "(f())"
Text_ParenCall ==
    <<"(", "f", "(", ")", ")">>

ScenarioInputs ==
    {Text_Let,
     Text_OpenParen,
     Text_Juxtaposed,
     Text_MissingOperand,
     Text_NegatedCall,
     Text_CallStatement,
     Text_CallOperand,
     Text_CallCall,
     Text_IfElse,
     Text_ElseIf,
     Text_While,
     Text_Fn,
     Text_Test,
     Text_TestEdited,
     Text_TestExpression,
     Text_LetEqEq,
     Text_Comment,
     Text_OpenString,
     Text_Unary,
     Text_QuotedString,
     Text_ParenCall,
     Text_Words}

\* -a op b, for a number and for a call as the operand a.
SignedOperandInputs ==
    {<<"-">> \o a \o op \o <<"2">> :
        a \in {<<"1">>, <<"f", "(", ")">>}, op \in OperatorTexts}

Inputs ==
    PieceInputs \cup ChainInputs \cup ScenarioInputs \cup SignedOperandInputs

\* The edits add_edit is given.
Edits ==
    {[range |-> <<8, 10>>, new_text |-> <<"1", "0", "0">>],
     [range |-> <<0, 0>>, new_text |-> <<>>]}

\* The new texts reparse is given, besides the text of the old tree.
ReparseTexts == {Text_TestEdited, Text_CallOperand}

(***************************************************************************)
(* State.                                                                   *)
(***************************************************************************)
VARIABLES
    src,          \* the source text
    tokens,       \* Parser.tokens
    cursor,       \* Parser.cursor
    parents,      \* Parser.builder: the open frames
    children,     \* Parser.builder: the finished elements
    errors,       \* Parser.errors
    stack,        \* the call stack of the parsing procedures
    status,       \* "source", "tokenized", "running", "returned", "panicked",
                  \* "expression" once parse_expression was called, and
                  \* "found" once find_node_at_offset was called
    panic,        \* the assertion that failed, once status = "panicked"
    green_node,   \* ParseResult.green_node, once status = "returned"
    reparser,     \* "none", "ready" (IncrementalReparser::new), "done"
    old_tree,     \* IncrementalReparser._old_tree
    edits,        \* IncrementalReparser.edits
    reparse_arg,  \* the argument of reparse
    reparsed,     \* what reparse returned
    expression_result,  \* what parse_expression(src) returned
    found         \* the offset given to find_node_at_offset and its result

parser_vars ==
    <<tokens, cursor, parents, children, errors, stack, status, panic,
      green_node>>

reparser_vars == <<reparser, old_tree, edits, reparse_arg, reparsed>>

vars == <<src, parser_vars, reparser_vars, expression_result, found>>

\* The parser machine of the current state.
Machine ==
    [tokens |-> tokens, cursor |-> cursor, parents |-> parents,
     children |-> children, errors |-> errors, stack |-> stack,
     status |-> status, panic |-> panic, green_node |-> green_node]

Install(m) ==
    /\ tokens' = m.tokens
    /\ cursor' = m.cursor
    /\ parents' = m.parents
    /\ children' = m.children
    /\ errors' = m.errors
    /\ stack' = m.stack
    /\ status' = m.status
    /\ panic' = m.panic
    /\ green_node' = m.green_node

(***************************************************************************)
(* IncrementalReparser.                                                     *)
(***************************************************************************)
\* A reparse that hands back the old tree when no edit was recorded.
reparse_reusing_old_tree(new_text) ==
    IF edits = <<>>
    THEN [status |-> "returned", panic |-> "None",
          green_node |-> old_tree.green, errors |-> <<>>]
    ELSE Outcome(Run(Parser_new(tokenize(new_text))))

\* reparse(new_text): tokenize, Parser::new, parse.
reparse(new_text) == Outcome(Run(Parser_new(tokenize(new_text))))

\* The value of `reparsed` before reparse has been called.
NoOutcome ==
    [status |-> "None", panic |-> "None", green_node |-> NoGreen,
     errors |-> <<>>]

(***************************************************************************)
(* parse_expression.                                                        *)
(***************************************************************************)
\* parse_expression(input): tokenize, Parser::new, the body, and
\* SyntaxTreeBuilder::new(green_node).build(); or the panic.
ParseExpressionCall(input) ==
    LET m == Run(Parser_new_expression(tokenize(input)))
    IN  [status |-> m.status, panic |-> m.panic, root |-> build(m.green_node)]

\* The value of expression_result before parse_expression has been called.
NoExpression ==
    [status |-> "None", panic |-> "None", root |-> new_root(NoGreen)]

\* The value of found before find_node_at_offset has been called.
NotSearched == [offset |-> 0, result |-> <<>>]

Init ==
    /\ src \in Inputs
    /\ tokens = <<>>
    /\ cursor = 0
    /\ parents = <<>>
    /\ children = <<>>
    /\ errors = <<>>
    /\ stack = <<>>
    /\ status = "source"
    /\ panic = "None"
    /\ green_node = NoGreen
    /\ reparser = "none"
    /\ old_tree = new_root(NoGreen)
    /\ edits = <<>>
    /\ reparse_arg = <<>>
    /\ reparsed = NoOutcome
    /\ expression_result = NoExpression
    /\ found = NotSearched

(***************************************************************************)
(* Actions.                                                                 *)
(***************************************************************************)
\* let tokens = tokenize(input);
Tokenize ==
    /\ status = "source"
    /\ tokens' = tokenize(src)
    /\ status' = "tokenized"
    /\ UNCHANGED <<src, cursor, parents, children, errors, stack, panic,
                   green_node, reparser_vars, expression_result, found>>

\* Parser::new(tokens), and the call of parse().
ParserNew ==
    /\ status = "tokenized"
    /\ Install(Parser_new(tokens))
    /\ UNCHANGED <<src, reparser_vars, expression_result, found>>

\* The procedure fn, on top of the stack, takes its step.
ProcedureStep(fn, m) ==
    /\ status = "running"
    /\ Top(Machine).fn = fn
    /\ Install(m)
    /\ UNCHANGED <<src, reparser_vars, expression_result, found>>

Parse == ProcedureStep("parse", parse(Machine))
Statement == ProcedureStep("statement", statement(Machine))
LetStatement == ProcedureStep("let_statement", let_statement(Machine))
IfStatement == ProcedureStep("if_statement", if_statement(Machine))
WhileStatement == ProcedureStep("while_statement", while_statement(Machine))
ReturnStatement == ProcedureStep("return_statement", return_statement(Machine))
FunctionDefinition ==
    ProcedureStep("function_definition", function_definition(Machine))
ParameterList == ProcedureStep("parameter_list", parameter_list(Machine))
Block == ProcedureStep("block", block(Machine))
ExpressionStatement ==
    ProcedureStep("expression_statement", expression_statement(Machine))
Expression == ProcedureStep("expression", expression(Machine))
BinaryExpression ==
    ProcedureStep("binary_expression", binary_expression(Machine))
UnaryExpression == ProcedureStep("unary_expression", unary_expression(Machine))
PostfixExpression ==
    ProcedureStep("postfix_expression", postfix_expression(Machine))
ArgumentList == ProcedureStep("argument_list", argument_list(Machine))
PrimaryExpression ==
    ProcedureStep("primary_expression", primary_expression(Machine))

\* parse_expression(src)
ParseExpression ==
    /\ status = "source"
    /\ tokens' = tokenize(src)
    /\ expression_result' = ParseExpressionCall(src)
    /\ status' = "expression"
    /\ UNCHANGED <<src, cursor, parents, children, errors, stack, panic,
                   green_node, reparser_vars, found>>

\* IncrementalReparser::new(SyntaxTreeBuilder::new(green_node).build())
NewReparser ==
    /\ status = "returned"
    /\ reparser = "none"
    /\ reparser' = "ready"
    /\ old_tree' = build(green_node)
    /\ edits' = <<>>
    /\ UNCHANGED <<src, parser_vars, reparse_arg, reparsed, expression_result,
                   found>>

\* add_edit(edit)
AddEdit ==
    /\ reparser = "ready"
    /\ Len(edits) < MaxEdits
    /\ \E edit \in Edits : edits' = Append(edits, edit)
    /\ UNCHANGED <<src, parser_vars, reparser, old_tree, reparse_arg,
                   reparsed, expression_result, found>>

\* reparse(new_text)
Reparse ==
    /\ reparser = "ready"
    /\ \E text \in ReparseTexts \cup {src} :
          /\ reparse_arg' = text
          /\ reparsed' = reparse(text)
    /\ reparser' = "done"
    /\ UNCHANGED <<src, parser_vars, old_tree, edits, expression_result,
                   found>>

\* find_node_at_offset(&SyntaxTreeBuilder::new(green_node).build(), offset)
FindNodeAtOffset ==
    /\ status = "returned"
    /\ reparser = "none"
    /\ \E offset \in 0..(GreenTextLen(green_node) + 1) :
          found' = [offset |-> offset,
                    result |-> find_node_at_offset(build(green_node), offset)]
    /\ status' = "found"
    /\ UNCHANGED <<src, tokens, cursor, parents, children, errors, stack,
                   panic, green_node, reparser_vars, expression_result>>

\* The steps of the parser.
ParserNext ==
    \/ Parse
    \/ Statement
    \/ LetStatement
    \/ IfStatement
    \/ WhileStatement
    \/ ReturnStatement
    \/ FunctionDefinition
    \/ ParameterList
    \/ Block
    \/ ExpressionStatement
    \/ Expression
    \/ BinaryExpression
    \/ UnaryExpression
    \/ PostfixExpression
    \/ ArgumentList
    \/ PrimaryExpression

Next ==
    \/ Tokenize
    \/ ParserNew
    \/ ParserNext
    \/ ParseExpression
    \/ NewReparser
    \/ AddEdit
    \/ Reparse
    \/ FindNodeAtOffset

Spec == Init /\ [][Next]_vars

(***************************************************************************)
(* Vocabulary of the properties.                                            *)
(***************************************************************************)
RECURSIVE GreenNodes(_)
\* The interior nodes of a green tree, the tree itself included.
GreenNodes(e) ==
    IF e.is_token THEN {}
    ELSE {e} \cup UNION {GreenNodes(e.children[i]) : i \in 1..Len(e.children)}

BinaryNodes(e) == {n \in GreenNodes(e) : n.kind = "BinaryExpr"}

IsTrivia(e) == e.is_token /\ e.kind \in TriviaKinds

IsOperatorToken(e) == e.is_token /\ e.kind \in BinaryOpKinds

\* A sequence of elements without its whitespace and comment tokens.
NonTrivia(elements) == SelectSeq(elements, LAMBDA e : ~IsTrivia(e))

\* Whether a BinaryExpr node is the one of the operator spelled op.
HasOperator(n, op) ==
    \E i \in 1..Len(n.children) :
        IsOperatorToken(n.children[i]) /\ n.children[i].text = op

\* The precedence table of the operators, by spelling.
Precedence(op) ==
    IF op \in {<<"*">>, <<"/">>} THEN 5
    ELSE IF op \in {<<"+">>, <<"-">>} THEN 4
    ELSE IF op \in {<<"<">>, <<">">>} THEN 3
    ELSE 2

\* A green tree without its trivia tokens.
RECURSIVE Skeleton(_)
Skeleton(e) ==
    IF e.is_token THEN e
    ELSE GreenNode(e.kind,
             LET c == NonTrivia(e.children)
             IN  [i \in 1..Len(c) |-> Skeleton(c[i])])

Number(d) == GreenNode("Literal", <<GreenToken("Number", <<d>>)>>)

Binary(left, kind, op, right) ==
    GreenNode("BinaryExpr", <<left, GreenToken(kind, op), right>>)

\* The byte offset at which the i-th character of a text starts.
CharOffset(text, i) == TextLen(SubSeq(text, 1, i - 1))

\* The characters of a text that lie in the byte range [start, end).
Slice(text, start, end) ==
    LET inside == {i \in 1..Len(text) :
                      start <= CharOffset(text, i) /\ CharOffset(text, i) < end}
    IN  IF inside = {} THEN <<>>
        ELSE SubSeq(text, CHOOSE i \in inside : \A j \in inside : i <= j,
                          CHOOSE i \in inside : \A j \in inside : j <= i)

\* The tokens that are neither whitespace nor comments.
Meaningful(toks) == SelectSeq(toks, LAMBDA t : t.kind \notin TriviaKinds)

CountKind(toks, kind) == Cardinality({i \in 1..Len(toks) : toks[i].kind = kind})

\* Sufficient for a text to be no program of the grammar: its last
\* meaningful token ends no statement, or its parentheses or braces do not
\* pair up.
Malformed(toks) ==
    LET t == Meaningful(toks)
    IN  \/ t # <<>> /\ t[Len(t)].kind \notin {"Semicolon", "RBrace"}
        \/ CountKind(toks, "LParen") # CountKind(toks, "RParen")
        \/ CountKind(toks, "LBrace") # CountKind(toks, "RBrace")

\* parse has returned or panicked.
Finished == status \in {"returned", "panicked"}

(***************************************************************************)
(* Properties.                                                              *)
(***************************************************************************)
\* C1: Losslessness: the root of the tree parse returns has text() equal to
\* the source, byte for byte.
C1_Lossless == status = "returned" => GreenText(green_node) = src

\* C2: parse never panics: no builder assertion fails, for any input.
C2_NeverPanics == status # "panicked"

\* C3: parsing terminates: parse ends by returning, with the cursor at the
\* end of the token list.
C3_ParseReturns ==
    Finished => status = "returned" /\ cursor = Len(tokens)

\* Every run of parse ends, by returning or by panicking: the steps of the
\* machine from Parser::new(tokens) reach a state that is not running.
ParseEnds ==
    status = "tokenized" =>
        Run(Parser_new(tokens)).status \in {"returned", "panicked"}

\* Every step of a parsing loop either advances the cursor, calls or
\* returns, or leaves the loop head: no step at a loop head leaves the
\* machine where it was.
LoopProgress ==
    [][ParserNext =>
          \/ cursor' > cursor
          \/ stack' # stack
          \/ status' # status]_vars

\* C4: checkpoint correctness: "1 + 2 * 3" parses to
\* Add(Number(1), Mul(Number(2), Number(3))), "1 * 2 + 3" to
\* Add(Mul(Number(1), Number(2)), Number(3)), and in `a op1 b op2 c` the
\* BinaryExpr of the tighter operator is a child of the BinaryExpr of the
\* looser one.
C4_PrecedenceShape ==
    status = "returned" =>
        /\ src = Chain(<<<<"+">>, <<"*">>>>, <<" ">>) =>
              Binary(Number("1"), "Plus", <<"+">>,
                     Binary(Number("2"), "Star", <<"*">>, Number("3")))
                  \in {Skeleton(n) : n \in BinaryNodes(green_node)}
        /\ src = Chain(<<<<"*">>, <<"+">>>>, <<" ">>) =>
              Binary(Binary(Number("1"), "Star", <<"*">>, Number("2")),
                     "Plus", <<"+">>, Number("3"))
                  \in {Skeleton(n) : n \in BinaryNodes(green_node)}
        /\ \A op1, op2 \in OperatorTexts, gap \in {<<>>, <<" ">>} :
              /\ src = Chain(<<op1, op2>>, gap)
              /\ Precedence(op1) # Precedence(op2)
              => LET tight == IF Precedence(op1) > Precedence(op2)
                              THEN op1 ELSE op2
                     loose == IF tight = op1 THEN op2 ELSE op1
                 IN  \E outer, inner \in BinaryNodes(green_node) :
                        /\ HasOperator(outer, loose)
                        /\ HasOperator(inner, tight)
                        /\ \E i \in 1..Len(outer.children) :
                              outer.children[i] = inner

\* C5: retroactive wrapping: the children of every BinaryExpr node are, in
\* order and apart from trivia, the left operand, the operator token and
\* the right operand, whenever no operand was missing from the input.
C5_LeftOperandWrapped ==
    /\ status = "returned"
    /\ \A i \in 1..Len(errors) : errors[i].message # "Expected expression"
    => \A n \in BinaryNodes(green_node) :
          LET c == NonTrivia(n.children)
          IN  /\ Len(c) = 3
              /\ ~IsOperatorToken(c[1])
              /\ IsOperatorToken(c[2])
              /\ ~IsOperatorToken(c[3])

\* C6: tokenizer round trip: the texts of the tokens, concatenated in
\* order, are the source, and no token is empty.
C6_TokenizeRoundTrip ==
    status # "source" =>
        /\ Flat([i \in 1..Len(tokens) |-> tokens[i].text]) = src
        /\ \A i \in 1..Len(tokens) : tokens[i].text # <<>>

\* Tokenized: several tokens, among them "==" or "!=".
C6_Witness ==
    /\ status = "tokenized"
    /\ Len(tokens) >= 3
    /\ \E i \in 1..Len(tokens) :
          tokens[i].kind \in {"Eq", "Neq"} /\ Len(tokens[i].text) = 2

\* C7: reparse equals full parse: whatever the old tree and the recorded
\* edits, reparse(t) returns what a fresh Parser::new(tokenize(t)).parse()
\* returns; for t the text of the old tree, the tree and errors parse gave.
C7_ReparseEqualsParse ==
    reparser = "done" =>
        /\ reparsed = Outcome(Run(Parser_new(tokenize(reparse_arg))))
        /\ reparse_arg = src => reparsed = Outcome(Machine)

\* Reparsed, after an edit, a text other than the old tree's.
C7_Witness ==
    /\ reparser = "done"
    /\ edits # <<>>
    /\ reparse_arg # src
    /\ reparsed.status = "returned"
    /\ reparsed.green_node # green_node

\* C8: for every node n of the tree parse returns, n.text() is the slice of
\* the source that n.text_range() delimits.
C8_NodeTextIsSourceSlice ==
    status = "returned" =>
        \A n \in Descendants(build(green_node)) :
            GreenText(n.green)
                = Slice(src, text_range(n)[1], text_range(n)[2])

C10_MalformedReported ==
    Finished /\ Malformed(tokens) => status = "returned" /\ errors # <<>>

\* C11: for the unterminated input "(1 + 2", parse returns a tree whose
\* root has the text range 0..7 and an errors list of exactly one error,
\* the one of the missing ')'.
C11_OpenParenOneError ==
    Finished /\ src = Text_OpenParen =>
        /\ status = "returned"
        /\ text_range(build(green_node)) = <<0, 7>>
        /\ Len(errors) = 1
        /\ errors[1].message = "Expected RParen"

RECURSIVE Leaves(_)
\* The tokens of a green tree, in order.
Leaves(e) ==
    IF e.is_token THEN <<e>>
    ELSE Flat([i \in 1..Len(e.children) |-> Leaves(e.children[i])])

\* The Whitespace and Comment tokens of a token stream, as leaves.
TriviaOf(toks) ==
    LET t == SelectSeq(toks, LAMBDA x : x.kind \in TriviaKinds)
    IN  [i \in 1..Len(t) |-> GreenToken(t[i].kind, t[i].text)]

\* C12: trivia is kept: the Whitespace and Comment leaves of the tree parse
\* returns are, in order, the Whitespace and Comment tokens of the token
\* stream; the parser drops none.
C12_TriviaKept ==
    status = "returned" =>
        SelectSeq(Leaves(green_node), IsTrivia) = TriviaOf(tokens)

\* The kinds of the tokens that start a primary expression.
PrimaryKinds == {"Number", "String", "Ident", "LParen"}

\* C13: when primary_expression meets a token that cannot start an
\* expression, it records one diagnostic, appends an Error node wrapping
\* that token to the tree under construction, and returns to its caller.
C13_UnexpectedTokenWrapped ==
    [][/\ PrimaryExpression
       /\ Top(Machine).pc = "start"
       /\ cursor < Len(tokens)
       /\ current_kind(Machine) \notin PrimaryKinds
       => /\ Len(errors') = Len(errors) + 1
          /\ Len(children') = Len(children) + 1
          /\ children'[Len(children')]
                = GreenNode("Error",
                      <<GreenToken(tokens[cursor + 1].kind,
                                   tokens[cursor + 1].text)>>)
          /\ stack' = SubSeq(stack, 1, Len(stack) - 1)]_vars

\* Well-formed expressions of the grammar among the inputs: numbers,
\* identifiers, strings, unary and binary operators, parentheses, calls.
ExpressionTexts ==
    ChainInputs
    \cup {<<"1">>, <<"x">>, Text_TestExpression, Text_Unary, Text_QuotedString,
          Text_NegatedCall, Text_CallOperand, Text_ParenCall}

RECURSIVE TrimStart(_)
TrimStart(text) ==
    IF text # <<>> /\ Head(text) \in WhitespaceChars
    THEN TrimStart(Tail(text))
    ELSE text

RECURSIVE TrimEnd(_)
TrimEnd(text) ==
    IF text # <<>> /\ text[Len(text)] \in WhitespaceChars
    THEN TrimEnd(SubSeq(text, 1, Len(text) - 1))
    ELSE text

\* str::trim
Trim(text) == TrimEnd(TrimStart(text))

\* C14: for every well-formed expression e, parse_expression(e) returns a
\* tree whose root text(), trimmed of surrounding whitespace, is e.
C14_ExpressionTextKept ==
    status = "expression" /\ src \in ExpressionTexts =>
        /\ expression_result.status = "returned"
        /\ Trim(GreenText(expression_result.root.green)) = src

\* C15: the tree parse returns, and the tree parse_expression returns, has
\* a root of kind Root whose text range starts at offset 0.
C15_RootAtZero ==
    /\ status = "returned" =>
          /\ build(green_node).green.kind = "Root"
          /\ text_range(build(green_node))[1] = 0
    /\ status = "expression" /\ expression_result.status = "returned" =>
          /\ expression_result.root.green.kind = "Root"
          /\ text_range(expression_result.root)[1] = 0

\* Well-formed programs of the grammar among the inputs: let, if/else,
\* while, return, fn and expression statements.
ProgramTexts ==
    {Text_Let, Text_Test, Text_TestEdited, Text_CallStatement, Text_CallCall,
     Text_IfElse, Text_ElseIf, Text_While, Text_Fn, Text_Comment,
     <<"1", ";">>, <<"x", ";">>}

\* C16: for every well-formed program text t, reparse(t) returns an empty
\* errors list, whatever the old tree and the recorded edits.
C16_ReparseWellFormedNoErrors ==
    reparser = "done" /\ reparse_arg \in ProgramTexts =>
        /\ reparsed.status = "returned"
        /\ reparsed.errors = <<>>

\* C17: token offsets are exact byte offsets: the first token is at 0, each
\* token starts where the one before it ends, the last one ends at the byte
\* length of the source, and each token's text is the slice of the source
\* at its offset.
C17_TokenOffsetsExact ==
    status = "tokenized" =>
        /\ tokens # <<>> =>
              /\ tokens[1].offset = 0
              /\ tokens[Len(tokens)].offset + TextLen(tokens[Len(tokens)].text)
                    = TextLen(src)
        /\ \A i \in 1..Len(tokens) :
              /\ i < Len(tokens) =>
                    tokens[i + 1].offset
                        = tokens[i].offset + TextLen(tokens[i].text)
              /\ tokens[i].text
                    = Slice(src, tokens[i].offset,
                            tokens[i].offset + TextLen(tokens[i].text))

\* Tokenized: a token that follows a two-byte character, so that its byte
\* offset is not the number of characters before it.
C17_Witness ==
    /\ status = "tokenized"
    /\ \E i \in 2..Len(tokens) :
          tokens[i].offset
              > Len(Flat([j \in 1..(i - 1) |-> tokens[j].text]))

\* The characters that start a word, and those that continue it.
WordStartChars == Letters \cup {"_"}

WordChars == Letters \cup Digits \cup {"_"}

\* The twelve keywords: let, if, else, while, for, fn, return, true, false,
\* struct, enum, impl.
Keywords ==
    {W_let, W_if, W_else, W_while, <<"f", "o", "r">>, W_fn, W_return,
     <<"t", "r", "u", "e">>, <<"f", "a", "l", "s", "e">>,
     <<"s", "t", "r", "u", "c", "t">>, <<"e", "n", "u", "m">>,
     <<"i", "m", "p", "l">>}

\* The positions of a text at which a word starts: a letter or '_' that no
\* letter, digit or '_' precedes.
WordStarts(text) ==
    {j \in 1..Len(text) :
        /\ text[j] \in WordStartChars
        /\ j > 1 => text[j - 1] \notin WordChars}

\* A text without quotes and slashes has no strings and no comments.
PlainText(text) == \A j \in 1..Len(text) : text[j] \notin {"\"", "/"}

C19_WhitespaceCoalesced ==
    status # "source" =>
        /\ \A i \in 1..(Len(tokens) - 1) :
              ~(tokens[i].kind = "Whitespace"
                /\ tokens[i + 1].kind = "Whitespace")
        /\ \A i \in 1..Len(tokens) :
              tokens[i].kind \notin {"Whitespace", "Comment", "String"} =>
                  \A j \in 1..Len(tokens[i].text) :
                      tokens[i].text[j] \notin WhitespaceChars

\* The text of a token of the '"' arm that has no closing quote.
Unterminated(text) ==
    /\ Head(text) = "\""
    /\ Len(text) = 1 \/ text[Len(text)] # "\""

\* The kind tokenize gives a terminated string literal.
TerminatedStringKind == tokenize(<<"\"", "\"">>)[1].kind

\* C20: a string literal without its closing quote is one token that spans
\* from the opening quote to the end of the input, and its tag tells it
\* apart from a terminated string.
C20_UnterminatedStringTagged ==
    status # "source" =>
        \A i \in 1..Len(tokens) :
            Unterminated(tokens[i].text) =>
                /\ i = Len(tokens)
                /\ tokens[i].offset + TextLen(tokens[i].text) = TextLen(src)
                /\ tokens[i].kind # TerminatedStringKind

\* The tree of `-f(x)` as the grammar has it: the sign, then one CallExpr of
\* the callee and one ArgList.
NegatedCallTree ==
    GreenNode("UnaryExpr",
        <<GreenToken("Minus", <<"-">>),
          GreenNode("CallExpr",
              <<GreenToken("Ident", <<"f">>),
                GreenNode("ArgList",
                    <<GreenToken("LParen", <<"(">>),
                      GreenToken("Ident", <<"x">>),
                      GreenToken("RParen", <<")">>)>>)>>)>>)

\* C21: a call binds tighter than a sign and is one node: for `-f(x)` the
\* UnaryExpr node holds the sign token and the whole call, a single CallExpr
\* node whose children are the callee and one ArgList node.
C21_CallInsideUnary ==
    /\ status = "returned" /\ src = Text_NegatedCall =>
          NegatedCallTree \in {Skeleton(n) : n \in GreenNodes(green_node)}
    /\ /\ status = "expression"
       /\ src = Text_NegatedCall
       /\ expression_result.status = "returned"
       => NegatedCallTree
              \in {Skeleton(n) : n \in GreenNodes(expression_result.root.green)}

UnaryNodes(e) == {n \in GreenNodes(e) : n.kind = "UnaryExpr"}

\* C22: a sign binds tighter than any binary operator: for `-a op b` there
\* is a UnaryExpr node, and it holds the sign token, the whitespace after it
\* and the operand a only: no binary operator token and no BinaryExpr node
\* lies inside it.
C22_UnaryBindsTighter ==
    status = "returned" /\ src \in SignedOperandInputs \cup {Text_Unary} =>
        /\ UnaryNodes(green_node) # {}
        /\ \A n \in UnaryNodes(green_node) :
              /\ Leaves(n)[1].kind \in {"Minus", "Plus"}
              /\ \A i \in 2..Len(Leaves(n)) : ~IsOperatorToken(Leaves(n)[i])
              /\ BinaryNodes(n) = {}

\* C23: builder frame balance: every parsing procedure returns with the
\* number of open frames it was called with; no finish_node finds the
\* frame stack empty; and when finish() is called, in parse and in
\* parse_expression, no frame is open and the one finished element is the
\* Root node.
C23_FramesBalanced ==
    [][/\ status = "running" =>
             /\ status' = "running" /\ Len(stack') < Len(stack) =>
                   Len(parents') = Top(Machine).frames
             /\ status' = "panicked" => panic' \notin {"finish_node", "finish"}
             /\ status' = "returned" =>
                   parents' = <<>> /\ green_node'.kind = "Root"
       /\ status' = "expression" =>
             LET m == Run(Parser_new_expression(tokens'))
             IN  /\ m.panic \notin {"finish_node", "finish"}
                 /\ m.status = "returned" =>
                       m.parents = <<>> /\ m.green_node.kind = "Root"]_vars

\* The procedure on top of the stack is about to call start_node_at.
AtStartNodeAt ==
    /\ status = "running"
    /\ \/ Top(Machine).fn = "binary_expression" /\ Top(Machine).pc = "rhs"
       \/ Top(Machine).fn = "postfix_expression" /\ Top(Machine).pc = "call"

\* C24: checkpoint validity: whenever start_node_at(cp, kind) is called, no
\* frame opened after cp was taken is still open and none open then has
\* been closed, and cp lies between the first-child index of the top frame
\* and the number of emitted children.
C24_CheckpointValid ==
    AtStartNodeAt =>
        /\ Len(parents) = Top(Machine).cp_frames
        /\ parents # <<>> =>
              parents[Len(parents)].first_child <= Top(Machine).checkpoint
        /\ Top(Machine).checkpoint <= Len(children)

\* C25: every ParseError is recorded at the current position: at the byte
\* offset of the token under the cursor when the error was raised, and at
\* the byte length of the source when it was raised after the last token.
C25_ErrorAtCursor ==
    \A i \in 1..Len(errors) :
        errors[i].offset
            = IF errors[i].cursor < Len(tokens)
              THEN tokens[errors[i].cursor + 1].offset
              ELSE TextLen(src)

\* The kinds of SyntaxKind that tokens have.
TokenKinds ==
    {"Whitespace", "Comment", "Ident", "Number", "String", "Plus", "Minus",
     "Star", "Slash", "Eq", "Neq", "Lt", "Gt", "LParen", "RParen", "LBrace",
     "RBrace", "Semicolon", "Comma", "Keyword", "Error"}

\* C26: a failed consume changes only the error list: it appends exactly
\* one ParseError and leaves the cursor, the tokens and the builder's
\* frames and children as they were; a successful one appends exactly one
\* leaf, advances the cursor by one and leaves the error list as it was.
C26_ConsumeEffect ==
    status = "running" =>
        \A expected \in TokenKinds :
            LET r == consume(Machine, expected)
            IN  /\ r.tokens = tokens
                /\ r.parents = parents
                /\ r.stack = stack
                /\ r.status = status
                /\ IF at(Machine, expected)
                   THEN /\ r.children
                             = Append(children,
                                      GreenToken(expected,
                                                 tokens[cursor + 1].text))
                        /\ r.cursor = cursor + 1
                        /\ r.errors = errors
                   ELSE /\ Len(r.errors) = Len(errors) + 1
                        /\ SubSeq(r.errors, 1, Len(errors)) = errors
                        /\ r.cursor = cursor
                        /\ r.children = children

\* Running, after a consume that succeeded and one that failed while a
\* token was under the cursor.
C26_Witness ==
    /\ status = "running"
    /\ children # <<>>
    /\ \E i \in 1..Len(errors) :
          /\ errors[i].message \in {"Expected " \o k : k \in TokenKinds}
          /\ errors[i].cursor < Len(tokens)

\* C27: operators of equal precedence group to the left: for
\* `a op1 b op2 c` with op1 and op2 of the same precedence, the BinaryExpr
\* of op1 ends before op2 and is the left operand of the BinaryExpr of op2.
C27_LeftAssociative ==
    status = "returned" =>
        \A op1, op2 \in OperatorTexts, gap \in {<<>>, <<" ">>} :
            /\ src = Chain(<<op1, op2>>, gap)
            /\ Precedence(op1) = Precedence(op2)
            => \E outer, inner \in BinaryNodes(green_node) :
                  /\ NonTrivia(outer.children)[1] = inner
                  /\ HasOperator(outer, op2)
                  /\ HasOperator(inner, op1)
                  /\ ~HasOperator(inner, op2) \/ op1 = op2
                  /\ Len(NonTrivia(outer.children)) = 3
                  /\ Skeleton(NonTrivia(outer.children)[3]) = Number("3")

RECURSIVE SubsequenceFrom(_, _, _, _)
\* Whether the elements of a, from the i-th on, occur in b from the j-th
\* on, in the order of a.
SubsequenceFrom(a, i, b, j) ==
    IF i > Len(a) THEN TRUE
    ELSE IF j > Len(b) THEN FALSE
    ELSE IF a[i] = b[j] THEN SubsequenceFrom(a, i + 1, b, j + 1)
    ELSE SubsequenceFrom(a, i, b, j + 1)

\* Whether the elements of a occur in b, in the order of a.
IsSubsequence(a, b) == SubsequenceFrom(a, 1, b, 1)

\* The tokens of a token stream as leaves: kind and text.
LeavesOf(toks) == [i \in 1..Len(toks) |-> GreenToken(toks[i].kind, toks[i].text)]

\* The leaves the builder holds, in order.
EmittedLeaves == Flat([i \in 1..Len(children) |-> Leaves(children[i])])

\* C28: tokens are consumed in order and at most once: the cursor never
\* decreases and never exceeds the number of tokens, the token list is
\* never modified, and the leaves emitted so far, and those of the tree
\* returned, are a subsequence of the tokens the cursor has passed.
C28_TokensConsumedInOrder ==
    [][status = "running" =>
          /\ cursor' >= cursor
          /\ cursor' <= Len(tokens')
          /\ tokens' = tokens
          /\ IsSubsequence(EmittedLeaves, LeavesOf(SubSeq(tokens, 1, cursor)))
          /\ status' = "returned" =>
                IsSubsequence(Leaves(green_node'), LeavesOf(tokens))]_vars

\* Returned a tree that has leaves, fewer than there are tokens, after an
\* advance at the end of the input.
C28_Witness ==
    /\ status = "returned"
    /\ Leaves(green_node) # <<>>
    /\ Len(Leaves(green_node)) < Len(tokens)
    /\ cursor = Len(tokens)
    /\ \E i \in 1..Len(errors) :
          /\ errors[i].message = "Expected expression"
          /\ errors[i].cursor = Len(tokens)

\* Whether the offsets of a list of errors never decrease.
InSourceOrder(errs) ==
    \A i, j \in 1..Len(errs) : i < j => errs[i].offset <= errs[j].offset

\* C29: the errors list is in source order: errors are only ever appended,
\* and an error recorded earlier starts no later than one recorded later.
C29_ErrorsInSourceOrder ==
    [][/\ Len(errors') >= Len(errors)
       /\ SubSeq(errors', 1, Len(errors)) = errors
       /\ InSourceOrder(errors')]_vars

\* The node cursors of a tree: the root and every node below it.
NodesBelow(root) == {n \in Descendants(root) : ~n.green.is_token}

\* offset lies in the half-open range [start, end) of the cursor n.
InRange(n, offset) ==
    n.offset <= offset /\ offset < n.offset + GreenTextLen(n.green)

\* C30: find_node_at_offset(root, offset) returns None exactly when offset
\* lies outside root's half-open text range [start, end); otherwise it
\* returns a node of root's subtree whose range contains offset and none of
\* whose child nodes has a range containing offset.
C30_DeepestNodeAtOffset ==
    status = "found" =>
        LET root == build(green_node)
        IN  /\ found.result = <<>> <=> ~InRange(root, found.offset)
            /\ found.result # <<>> =>
                  /\ found.result[1] \in NodesBelow(root)
                  /\ InRange(found.result[1], found.offset)
                  /\ \A c \in NodesBelow(found.result[1]) \ {found.result[1]} :
                        ~InRange(c, found.offset)

\* A search that descended: the node returned lies below a child node of
\* the root, at an offset past the start of the text.
C30_Witness ==
    /\ status = "found"
    /\ found.offset > 0
    /\ found.result # <<>>
    /\ LET root == build(green_node)
       IN  /\ found.result[1] # root
           /\ \E c \in NodesBelow(root) \ {root} :
                 found.result[1] \in NodesBelow(c) \ {c}

====
